---- MODULE Spec2Model ----
(***************************************************************************)
(* A model of nisin: StructsDefinitions.build_parser / convert_type        *)
(* (schema compilation), BinaryParser.get_format / parse / asign_data      *)
(* (layout and decoding) and StructData.to_dict / to_json (rendering).     *)
(*                                                                         *)
(* Representation choices                                                  *)
(*  - a type string is a sequence of tokens: a name, "*" or "[n]";         *)
(*  - a format string is a sequence of one-character struct codes;         *)
(*  - a Python dict is a sequence of [k, v] items in insertion order;      *)
(*  - an unpacked scalar is [py, raw]: its Python type and the big-endian  *)
(*    byte image of its value (most significant byte first), which is an   *)
(*    injective encoding of the value for every struct code.               *)
(***************************************************************************)
EXTENDS Integers, Sequences, FiniteSets, TLC

\* ------------------------------------------------------------------ bounds
MaxBuf    == 8      \* longest input buffer, in bytes
MaxOffset == 1      \* largest byte offset handed to parse
MaxIter   == 3      \* iterations of the alias loop that are followed

None == "None"

\* ------------------------------------------------------- sequence helpers
RECURSIVE Rep(_, _)
Rep(s, n) == IF n <= 0 THEN <<>> ELSE s \o Rep(s, n - 1)

RECURSIVE Prod(_)
Prod(dim) == IF dim = <<>> THEN 1 ELSE Head(dim) * Prod(Tail(dim))

RECURSIVE Reverse(_)
Reverse(s) == IF s = <<>> THEN <<>> ELSE Reverse(Tail(s)) \o <<Head(s)>>

RECURSIVE Count(_, _)
Count(s, x) == IF s = <<>> THEN 0
               ELSE (IF Head(s) = x THEN 1 ELSE 0) + Count(Tail(s), x)

\* ------------------------------------------------------ primitive registry
\* primitive.py: the classes' get_format
TypeFormat(cls, bit) ==
  CASE cls = "Char"    -> "c"
    [] cls = "S8"      -> "b"
    [] cls = "U8"      -> "B"
    [] cls = "Bool"    -> "?"
    [] cls = "S16"     -> "h"
    [] cls = "U16"     -> "H"
    [] cls = "S32"     -> "i"
    [] cls = "U32"     -> "I"
    [] cls = "S64"     -> "q"
    [] cls = "U64"     -> "Q"
    [] cls = "Float"   -> "f"
    [] cls = "Double"  -> "d"
    [] cls = "SSize"   -> IF bit = 32 THEN "i" ELSE "q"
    [] cls = "USize"   -> IF bit = 32 THEN "I" ELSE "Q"
    [] cls = "Pointer" -> IF bit = 32 THEN "I" ELSE "Q"
    [] cls = "Padding" -> "x"

\* primitive.py: the registry dict `primitive`
primitive ==
  [n \in {"char"} |-> "Char"] @@
  [n \in {"signed char", "__s8", "s8"} |-> "S8"] @@
  [n \in {"unsigned char", "BYTE", "__u8", "u8"} |-> "U8"] @@
  [n \in {"_Bool", "bool"} |-> "Bool"] @@
  [n \in {"short", "__s16", "s16"} |-> "S16"] @@
  [n \in {"unsigned short", "WORD", "__u16", "u16"} |-> "U16"] @@
  [n \in {"int", "long", "LONG", "__s32", "s32"} |-> "S32"] @@
  [n \in {"unsigned int", "unsigned long", "DWORD", "__u32", "u32"} |-> "U32"] @@
  [n \in {"long long", "LONGLONG", "__s64", "s64"} |-> "S64"] @@
  [n \in {"unsigned long long", "QWORD", "ULONGLONG", "__u64", "u64"} |-> "U64"] @@
  [n \in {"ssize_t"} |-> "SSize"] @@
  [n \in {"size_t"} |-> "USize"] @@
  [n \in {"float"} |-> "Float"] @@
  [n \in {"double"} |-> "Double"] @@
  [n \in {"padding"} |-> "Padding"]

\* ------------------------------------------------- the struct module's sizes
\* width of one code in standard mode ("<" or ">" prefix): no alignment
StdSize(code) ==
  CASE code \in {"c", "b", "B", "?", "x"} -> 1
    [] code \in {"h", "H"}                -> 2
    [] code \in {"i", "I", "f"}           -> 4
    [] code \in {"q", "Q", "d"}           -> 8

\* alignment of one code in native mode (no prefix); 8-byte types are
\* 8-aligned on LP64 ABIs and 4-aligned on the i386 System V ABI
NativeAlign(code, abi) ==
  IF code = "x" THEN 1
  ELSE IF StdSize(code) = 8 /\ abi = "ILP32" THEN 4
  ELSE StdSize(code)

\* struct.calcsize("<" + fmt): the plain sum of the widths
RECURSIVE PackedSize(_)
PackedSize(fmt) ==
  IF fmt = <<>> THEN 0 ELSE StdSize(Head(fmt)) + PackedSize(Tail(fmt))

AlignUp(n, a) == ((n + a - 1) \div a) * a

\* struct.calcsize(fmt) with no prefix: native mode, every code is placed at
\* the next multiple of its alignment
RECURSIVE NativeSizeFrom(_, _, _)
NativeSizeFrom(fmt, abi, pos) ==
  IF fmt = <<>> THEN pos
  ELSE NativeSizeFrom(Tail(fmt), abi,
         AlignUp(pos, NativeAlign(Head(fmt), abi)) + StdSize(Head(fmt)))

calcsize(fmt, abi) == NativeSizeFrom(fmt, abi, 0)

\* --------------------------------------------------------- BinaryParser
NoEquates == [mode |-> None, members |-> <<>>]

\* BinaryParser.__init__
BinaryParser(type_name, type, ptr_depth, dim, has_children, children) ==
  [type_name |-> type_name, type |-> type, ptr_depth |-> ptr_depth,
   dim |-> dim, has_children |-> has_children, children |-> children,
   fmt |-> None, equates |-> NoEquates]

\* BinaryParser.set_equates: Enum/Flag("equates", {v: k for k, v in labels})
set_equates(bp, has_labels, labels, is_flag) ==
  IF ~has_labels THEN bp
  ELSE [bp EXCEPT !.equates =
          [mode    |-> IF is_flag THEN "Flag" ELSE "Enum",
           members |-> [i \in 1..Len(labels) |->
                          [name |-> labels[i].v, value |-> labels[i].k]]]]

\* BinaryParser.get_format, the format string
RECURSIVE FlatFormat(_, _)
FlatFormat(bp, bit) ==
  LET RECURSIVE ChildFormats(_)
      ChildFormats(cs) ==
        IF cs = <<>> THEN <<>>
        ELSE FlatFormat(Head(cs).v, bit) \o ChildFormats(Tail(cs))
      fmts == IF bp.ptr_depth > 0 THEN <<TypeFormat("Pointer", bit)>>
              ELSE IF bp.type # None THEN <<TypeFormat(bp.type, bit)>>
              ELSE IF bp.has_children THEN ChildFormats(bp.children)
              ELSE <<>>
  IN  Rep(fmts, Prod(bp.dim))

\* BinaryParser.get_format: (fmt, struct.calcsize(fmt))
get_format(bp, bit, abi) ==
  LET fmt == FlatFormat(bp, bit)
  IN  [fmt |-> fmt, size |-> calcsize(fmt, abi)]

\* -------------------------------------------------------------- schema
\* A definition of the schema mapping is an alias string or a list of field
\* dicts; an entry of a field dict is a type string or a record with "type"
\* and optional "format", "labels", "flags".
Alias(name) == [is_str |-> TRUE, alias |-> name, fields |-> <<>>]
Fields(fs)  == [is_str |-> FALSE, alias |-> "", fields |-> fs]

Bare(ty) ==
  [is_str |-> TRUE, type |-> ty, format |-> None,
   has_labels |-> FALSE, labels |-> <<>>, has_flags |-> FALSE, flags |-> <<>>]
Rec(ty, format, has_labels, labels, has_flags, flags) ==
  [is_str |-> FALSE, type |-> ty, format |-> format,
   has_labels |-> has_labels, labels |-> labels,
   has_flags |-> has_flags, flags |-> flags]

Item(k, v) == [k |-> k, v |-> v]

\* -------------------------------------------------- StructsDefinitions
\* array_dim_pat and int(m.group(1)): the tokens the pattern matches
DimVal == ("[1]" :> 1) @@ ("[2]" :> 2) @@ ("[3]" :> 3)
IsDim(tok) == tok \in DOMAIN DimVal

\* [int(m.group(1)) for m in re.finditer(array_dim_pat, ty)]
Dims(ty) ==
  LET ds == SelectSeq(ty, IsDim)
  IN  [i \in 1..Len(ds) |-> DimVal[ds[i]]]

\* ty.split("[")[0]
RECURSIVE BeforeBracket(_)
BeforeBracket(ty) ==
  IF ty = <<>> \/ IsDim(Head(ty)) THEN <<>>
  ELSE <<Head(ty)>> \o BeforeBracket(Tail(ty))

\* ty.strip("* "), then the text that is left
RECURSIVE StripLeft(_)
StripLeft(ty) ==
  IF ty # <<>> /\ Head(ty) = "*" THEN StripLeft(Tail(ty)) ELSE ty

RECURSIVE Join(_)
Join(ty) == IF ty = <<>> THEN "" ELSE Head(ty) \o Join(Tail(ty))

Strip(ty) == Join(Reverse(StripLeft(Reverse(StripLeft(ty)))))

NoParser == BinaryParser(None, None, 0, <<>>, FALSE, <<>>)

Raise(err, S)  == [status |-> err, node |-> NoParser, structs |-> S]
Return(bp, S)  == [status |-> "ok", node |-> bp, structs |-> S]

\* children[field_name] = bp
RECURSIVE Put(_, _, _)
Put(d, k, v) ==
  IF d = <<>> THEN <<Item(k, v)>>
  ELSE IF Head(d).k = k THEN <<Item(k, v)>> \o Tail(d)
  ELSE <<Head(d)>> \o Put(Tail(d), k, v)

\* build_parser, the alias loop:
\*   while isinstance(t, str):
\*       if t in primitive: return ...
\*       t = self.structs[target]
\* followed for at most n further iterations
RECURSIVE AliasLoop(_, _, _, _)
AliasLoop(S, target, t, n) ==
  IF ~t.is_str THEN [exit |-> "fields", t |-> t]
  ELSE IF t.alias \in DOMAIN primitive THEN [exit |-> "return", t |-> t]
  ELSE IF n = 0 THEN [exit |-> "running", t |-> t]
  ELSE AliasLoop(S, target, S[target], n - 1)

\* build_parser, the labels/flags choice of a record entry
AttachLabels(bp, entry) ==
  IF entry.has_labels THEN set_equates(bp, TRUE, entry.labels, FALSE)
  ELSE IF entry.has_flags THEN set_equates(bp, TRUE, entry.flags, TRUE)
  ELSE bp

RECURSIVE build_parser(_, _)
RECURSIVE convert_type(_, _)
RECURSIVE BuildChildren(_, _, _, _)

\* build_parser, the loop over the fields; field.popitem() empties the
\* field dict that the schema mapping holds
BuildChildren(S, target, i, children) ==
  IF i > Len(S[target].fields)
  THEN Return(BinaryParser(target, None, 0, <<>>, TRUE, children), S)
  ELSE
    LET field == S[target].fields[i] IN
    IF Len(field) # 1 THEN Raise("ValueError", S)
    ELSE
      LET item  == field[Len(field)]
          S1    == [S EXCEPT ![target].fields[i] = SubSeq(field, 1, Len(field) - 1)]
          entry == item.v
          r     == convert_type(S1, entry.type)
      IN  IF r.status # "ok" THEN r
          ELSE
            LET bp == IF entry.is_str THEN r.node
                      ELSE AttachLabels([r.node EXCEPT !.fmt = entry.format], entry)
            IN  BuildChildren(r.structs, target, i + 1, Put(children, item.k, bp))

\* StructsDefinitions.build_parser
build_parser(S, target) ==
  IF target \notin DOMAIN S THEN Raise("KeyError", S)
  ELSE
    LET w == AliasLoop(S, target, S[target], MaxIter) IN
    CASE w.exit = "return" ->
           Return(BinaryParser(w.t.alias, primitive[w.t.alias], 0, <<>>, FALSE, <<>>), S)
      [] w.exit = "running" -> Raise("Hang", S)
      [] w.exit = "fields"  -> BuildChildren(S, target, 1, <<>>)

\* StructsDefinitions.convert_type
convert_type(S, ty0) ==
  LET dim == Dims(ty0)
      ty  == IF Len(dim) > 0 THEN BeforeBracket(ty0) ELSE ty0
  IN  IF Count(ty, "*") > 0
      THEN Return(BinaryParser(Strip(ty), None, Count(ty, "*"), dim, FALSE, <<>>), S)
      ELSE IF Join(ty) \in DOMAIN primitive
      THEN Return(BinaryParser(Join(ty), primitive[Join(ty)], 0, dim, FALSE, <<>>), S)
      ELSE build_parser(S, Join(ty))

\* ------------------------------------------------------------ the inputs
\* the field entries a generated struct draws from
u8Labelled == Rec(<<"u8">>, "d", TRUE, <<Item(1, "ON")>>, TRUE, <<Item(1, "F")>>)

FieldEntries ==
  { Bare(<<"u8">>), Bare(<<"u32">>), Bare(<<"padding">>),
    Bare(<<"char", "[2]">>), Bare(<<"char", "[2]", "[2]">>),
    Bare(<<"S", "[2]">>), Bare(<<"S", "*", "[2]">>), Bare(<<"size_t">>),
    Bare(<<"byte">>), Bare(<<"word">>), u8Labelled }

\* the schema files: aliases, a small struct S, a struct T of two generated
\* fields, a struct W that nests T between two scalars, and a struct Bad
\* whose only field dict has two entries
MkSchema(a, b) ==
  ("byte" :> Alias("u8")) @@ ("pad" :> Alias("padding")) @@
  ("word" :> Alias("byte")) @@ ("loop" :> Alias("loop")) @@
  ("S" :> Fields(<< <<Item("x", Bare(<<"u8">>))>>, <<Item("y", Bare(<<"u16">>))>> >>)) @@
  ("T" :> Fields(<< <<Item("a", a)>>, <<Item("b", b)>> >>)) @@
  ("W" :> Fields(<< <<Item("h", Bare(<<"u8">>))>>, <<Item("t", Bare(<<"T">>))>>,
                    <<Item("z", Bare(<<"u16">>))>> >>)) @@
  ("Bad" :> Fields(<< <<Item("p", Bare(<<"u8">>)), Item("q", Bare(<<"u8">>))>> >>))

Schemas == { MkSchema(a, b) : a \in FieldEntries, b \in FieldEntries }

Targets == {"byte", "pad", "word", "loop", "S", "T", "W", "Bad", "nope"}

\* ------------------------------------------------------------ StructData
\* StructData.__init__; vtype is the Python type of `value`: a dict keeps its
\* entries in items, a list its elements in items (with empty keys), and a
\* scalar or a text its byte image in raw
StructData(vtype, items, raw, fmt, equates) ==
  [vtype |-> vtype, items |-> items, raw |-> raw,
   fmt |-> IF fmt = None
           THEN (IF vtype \in {"int", "bool"} THEN "#x" ELSE "")
           ELSE fmt,
   equates |-> equates]

NoData == [vtype |-> None, items |-> <<>>, raw |-> <<>>, fmt |-> "", equates |-> NoEquates]

\* ------------------------------------------------ struct.unpack_from
\* the Python type a code unpacks to
PyType(code) ==
  CASE code = "c"          -> "bytes"
    [] code = "?"          -> "bool"
    [] code \in {"f", "d"} -> "float"
    [] OTHER               -> "int"

\* one unpacked value: the bytes of the field in most-significant-first order
UnpackOne(code, bytes, endian) ==
  [py  |-> PyType(code),
   raw |-> IF code = "?" THEN <<IF bytes[1] # 0 THEN 1 ELSE 0>>
           ELSE IF endian = "little" THEN Reverse(bytes) ELSE bytes]

\* struct.unpack_from(endian prefix + fmt, buf, offset): one value per code
\* other than "x", in format order; pos counts bytes from 0
RECURSIVE Unpack(_, _, _, _)
Unpack(fmt, buf, pos, endian) ==
  IF fmt = <<>> THEN <<>>
  ELSE LET w    == StdSize(Head(fmt))
           rest == Unpack(Tail(fmt), buf, pos + w, endian)
       IN  IF Head(fmt) = "x" THEN rest
           ELSE <<UnpackOne(Head(fmt), SubSeq(buf, pos + 1, pos + w), endian)>> \o rest

\* ------------------------------------------------ BinaryParser.asign_data
\* a loop over the children that skips no field
IsPaddingField_NoSkip(c) == FALSE

\* `if c.type == Padding: continue`
IsPaddingField(c) == c.type = "Padding"

\* the text case taken only for a node declared with one dimension
IsCharString_Declared(bp, dim) == bp.type = "Char" /\ Len(dim) = 1 /\ Len(bp.dim) = 1

\* `if self.type == Char and len(dim) == 1`
IsCharString(bp, dim) == bp.type = "Char" /\ Len(dim) = 1

\* data.pop() and the StructData built from it
PopLeaf(bp, data) ==
  IF data = <<>> THEN [status |-> "IndexError", value |-> NoData, data |-> data]
  ELSE LET v == data[Len(data)]
       IN  [status |-> "ok",
            value  |-> StructData(v.py, <<>>, v.raw, bp.fmt, bp.equates),
            data   |-> SubSeq(data, 1, Len(data) - 1)]

\* b"".join(x.value for x in d)
RECURSIVE JoinBytes(_)
JoinBytes(d) == IF d = <<>> THEN <<>> ELSE Head(d).v.raw \o JoinBytes(Tail(d))

RECURSIVE asign_data(_, _, _)
asign_data(bp, data, dim) ==
  IF Len(dim) # 0 THEN
    LET RECURSIVE Elements(_, _, _)
        Elements(i, d, st) ==
          IF i >= dim[1] THEN [status |-> "ok", d |-> d, data |-> st]
          ELSE LET r == asign_data(bp, st, Tail(dim))
               IN  IF r.status # "ok" THEN [status |-> r.status, d |-> d, data |-> r.data]
                   ELSE Elements(i + 1, Append(d, Item("", r.value)), r.data)
        e == Elements(0, <<>>, data)
    IN  IF e.status # "ok" THEN [status |-> e.status, value |-> NoData, data |-> e.data]
        ELSE IF IsCharString(bp, dim)
        THEN [status |-> "ok",
              value  |-> StructData("str", <<>>, JoinBytes(e.d), bp.fmt, bp.equates),
              data   |-> e.data]
        ELSE [status |-> "ok",
              value  |-> StructData("list", e.d, <<>>, bp.fmt, bp.equates),
              data   |-> e.data]
  ELSE IF bp.ptr_depth > 0 THEN PopLeaf(bp, data)
  ELSE IF bp.type # None THEN PopLeaf(bp, data)
  ELSE IF bp.has_children THEN
    LET RECURSIVE Members(_, _, _)
        Members(cs, d, st) ==
          IF cs = <<>> THEN [status |-> "ok", d |-> d, data |-> st]
          ELSE IF IsPaddingField(Head(cs).v) THEN Members(Tail(cs), d, st)
          ELSE LET r == asign_data(Head(cs).v, st, Head(cs).v.dim)
               IN  IF r.status # "ok" THEN [status |-> r.status, d |-> d, data |-> r.data]
                   ELSE Members(Tail(cs), Put(d, Head(cs).k, r.value), r.data)
        m == Members(bp.children, <<>>, data)
    IN  IF m.status # "ok" THEN [status |-> m.status, value |-> NoData, data |-> m.data]
        ELSE [status |-> "ok",
              value  |-> StructData("dict", m.d, <<>>, bp.fmt, bp.equates),
              data   |-> m.data]
  ELSE [status |-> "ValueError", value |-> NoData, data |-> data]

\* BinaryParser.parse
parse(bp, buf, bit, endian, offset) ==
  LET fmt == FlatFormat(bp, bit) IN
  IF endian \notin {"little", "big"}
  THEN [status |-> "ValueError", value |-> NoData, data |-> <<>>]
  ELSE IF Len(buf) - offset < PackedSize(fmt)
  THEN [status |-> "struct.error", value |-> NoData, data |-> <<>>]
  ELSE asign_data(bp, Reverse(Unpack(fmt, buf, offset, endian)), bp.dim)

\* ------------------------------------------- StructData.to_dict / to_json
\* a Python object of the rendered tree: dict and list keep items, an int,
\* bool, float, bytes or decoded text keeps raw, a label text keeps s
PyObj(ptype, items, raw, s) == [ptype |-> ptype, items |-> items, raw |-> raw, s |-> s]

\* the integer k as a byte image without leading zero bytes (0 <= k < 256)
RECURSIVE StripZeros(_)
StripZeros(raw) ==
  IF raw # <<>> /\ Head(raw) = 0 THEN StripZeros(Tail(raw)) ELSE raw

NumEq(raw, k) == StripZeros(raw) = StripZeros(<<k>>)

\* self.equates(self.value): the first member with that value; a Flag is
\* looked up for exact members only
RECURSIVE Lookup(_, _)
Lookup(members, sd) ==
  IF members = <<>> THEN [found |-> FALSE, name |-> ""]
  ELSE IF sd.vtype \in {"int", "bool"} /\ NumEq(sd.raw, Head(members).value)
  THEN [found |-> TRUE, name |-> Head(members).name]
  ELSE Lookup(Tail(members), sd)

\* StructData._to_dict
RECURSIVE to_dict_inner(_)
to_dict_inner(sd) ==
  LET RECURSIVE Each(_)
      Each(its) == IF its = <<>> THEN <<>>
                   ELSE <<Item(Head(its).k, to_dict_inner(Head(its).v))>> \o Each(Tail(its))
  IN  IF sd.vtype = "dict" THEN PyObj("dict", Each(sd.items), <<>>, "")
      ELSE IF sd.vtype = "list" THEN PyObj("list", Each(sd.items), <<>>, "")
      ELSE IF sd.equates.mode # None
      THEN LET l == Lookup(sd.equates.members, sd)
           IN  IF l.found THEN PyObj("str", <<>>, <<>>, l.name)
               ELSE PyObj(sd.vtype, <<>>, sd.raw, "")
      ELSE PyObj(sd.vtype, <<>>, sd.raw, "")

\* StructData.to_dict: only a dict value fills the result
to_dict(sd) ==
  IF sd.vtype = "dict" THEN to_dict_inner(sd) ELSE PyObj("dict", <<>>, <<>>, "")

\* json.dumps: the JSON document of a Python object
RECURSIVE dumps(_)
dumps(o) ==
  LET RECURSIVE Each(_, _)
      Each(its, acc) ==
        IF its = <<>> THEN [status |-> "ok", items |-> acc]
        ELSE LET r == dumps(Head(its).v)
             IN  IF r.status # "ok" THEN [status |-> r.status, items |-> acc]
                 ELSE Each(Tail(its), Append(acc, Item(Head(its).k, r.doc)))
      Doc(j, items, raw, s) ==
        [status |-> "ok", doc |-> [j |-> j, items |-> items, raw |-> raw, s |-> s]]
      Fail == [status |-> "TypeError", doc |-> [j |-> None, items |-> <<>>, raw |-> <<>>, s |-> ""]]
  IN  CASE o.ptype \in {"dict", "list"} ->
             LET e == Each(o.items, <<>>)
             IN  IF e.status # "ok" THEN Fail
                 ELSE Doc(IF o.ptype = "dict" THEN "object" ELSE "array", e.items, <<>>, "")
        [] o.ptype = "str"              -> Doc("string", <<>>, o.raw, o.s)
        [] o.ptype \in {"int", "float"} -> Doc("number", <<>>, o.raw, "")
        [] o.ptype = "bool"             -> Doc("boolean", <<>>, o.raw, "")
        [] OTHER                        -> Fail

\* StructData.to_json
to_json(sd) == dumps(to_dict(sd))

\* ================================================================ state
\* yaml      the schema as loaded from the YAML files
\* structs   StructsDefinitions.structs
\* ctarget, cstatus, parser   the last build_parser call: its target, how it
\*           ended ("ok" or the exception, "Hang" for a call still looping)
\*           and the node it returned
\* phase     what the caller does with the node: "idle", "shown" (layout
\*           printed), "parsed", "rendered"
\* layout    the last get_format call: bit, abi of the interpreter, result
\* args      the arguments of the last parse call
\* dstatus, result, data   how parse ended, the StructData it returned and
\*           what was left of the reversed list `data`
\* jstatus, json            the last to_json call
VARIABLES yaml, structs, ctarget, cstatus, parser, phase, layout, args,
          dstatus, result, data, jstatus, json

vars == <<yaml, structs, ctarget, cstatus, parser, phase, layout, args,
          dstatus, result, data, jstatus, json>>

Buffers == { [i \in 1..n |-> i] : n \in 0..MaxBuf }
Bits    == {32, 64}
Endians == {"little", "big"}
Offsets == 0..MaxOffset
ABIs    == {"LP64", "ILP32"}

NoLayout == [bit |-> 0, abi |-> None, fmt |-> <<>>, size |-> 0]
NoArgs   == [buf |-> <<>>, bit |-> 0, endian |-> None, offset |-> 0]
NoJson   == [j |-> None, items |-> <<>>, raw |-> <<>>, s |-> ""]

Init ==
  /\ yaml \in Schemas
  /\ structs = yaml
  /\ ctarget = None
  /\ cstatus = None
  /\ parser = NoParser
  /\ phase = "idle"
  /\ layout = NoLayout
  /\ args = NoArgs
  /\ dstatus = None
  /\ result = NoData
  /\ data = <<>>
  /\ jstatus = None
  /\ json = NoJson

\* defs.build_parser(target)
BuildParser(target) ==
  /\ phase = "idle"
  /\ cstatus # "Hang"
  /\ LET r == build_parser(structs, target) IN
       /\ structs' = r.structs
       /\ cstatus' = r.status
       /\ parser' = r.node
  /\ ctarget' = target
  /\ UNCHANGED <<yaml, phase, layout, args, dstatus, result, data, jstatus, json>>

\* bin_parser.get_format(bit)
GetFormat(bit, abi) ==
  /\ phase = "idle"
  /\ cstatus = "ok"
  /\ LET r == get_format(parser, bit, abi) IN
       layout' = [bit |-> bit, abi |-> abi, fmt |-> r.fmt, size |-> r.size]
  /\ phase' = "shown"
  /\ UNCHANGED <<yaml, structs, ctarget, cstatus, parser, args,
                 dstatus, result, data, jstatus, json>>

\* bin_parser.parse(buf, bit, endian, offset)
Parse(buf, bit, endian, offset) ==
  /\ phase = "idle"
  /\ cstatus = "ok"
  /\ LET r == parse(parser, buf, bit, endian, offset) IN
       /\ dstatus' = r.status
       /\ result' = r.value
       /\ data' = r.data
  /\ args' = [buf |-> buf, bit |-> bit, endian |-> endian, offset |-> offset]
  /\ phase' = "parsed"
  /\ UNCHANGED <<yaml, structs, ctarget, cstatus, parser, layout, jstatus, json>>

\* data.to_json()
ToJson ==
  /\ phase = "parsed"
  /\ dstatus = "ok"
  /\ LET r == to_json(result) IN
       /\ jstatus' = r.status
       /\ json' = r.doc
  /\ phase' = "rendered"
  /\ UNCHANGED <<yaml, structs, ctarget, cstatus, parser, layout, args,
                 dstatus, result, data>>

\* the caller drops the layout or the decoded tree and goes on with the node
Discard ==
  /\ phase \in {"shown", "parsed", "rendered"}
  /\ phase' = "idle"
  /\ layout' = NoLayout
  /\ args' = NoArgs
  /\ dstatus' = None
  /\ result' = NoData
  /\ data' = <<>>
  /\ jstatus' = None
  /\ json' = NoJson
  /\ UNCHANGED <<yaml, structs, ctarget, cstatus, parser>>

Next ==
  \/ \E target \in Targets : BuildParser(target)
  \/ \E bit \in Bits, abi \in ABIs : GetFormat(bit, abi)
  \/ \E buf \in Buffers, bit \in Bits, endian \in Endians, offset \in Offsets :
       Parse(buf, bit, endian, offset)
  \/ ToJson
  \/ Discard

Spec == Init /\ [][Next]_vars

\* ================================================================ claims

\* the value a dict holds under key k (k is a key of d)
RECURSIVE Get(_, _)
Get(d, k) == IF Head(d).k = k THEN Head(d).v ELSE Get(Tail(d), k)

\* the last parse call got a supported byte order and enough bytes for the
\* packed format
ParseInputFits ==
  /\ phase \in {"parsed", "rendered"}
  /\ args.endian \in {"little", "big"}
  /\ args.offset + PackedSize(FlatFormat(parser, args.bit)) <= Len(args.buf)

\* ---------------------------------------------------------------- C1
\* where an alias chain ends when visited names are tracked
RECURSIVE AliasChain(_, _, _)
AliasChain(S, name, visited) ==
  IF name \in DOMAIN primitive THEN [ends |-> "primitive", name |-> name]
  ELSE IF name \in visited \/ name \notin DOMAIN S \/ ~S[name].is_str
  THEN [ends |-> "cycle", name |-> name]
  ELSE AliasChain(S, S[name].alias, visited \cup {name})

\* C1: compiling a target defined by an alias string ends: with the scalar
\* node of the primitive its alias chain reaches, or with CyclicAlias when
\* the chain does not reach a primitive.
C1_AliasCompileEnds ==
  (ctarget \in DOMAIN yaml /\ yaml[ctarget].is_str) =>
    LET c == AliasChain(yaml, yaml[ctarget].alias, {ctarget}) IN
    IF c.ends = "primitive"
    THEN /\ cstatus = "ok"
         /\ parser = BinaryParser(c.name, primitive[c.name], 0, <<>>, FALSE, <<>>)
    ELSE cstatus = "CyclicAlias"

\* ---------------------------------------------------------------- C2
\* C2: build_parser leaves the schema mapping as it was loaded, and the last
\* call returned what the first call for that target on the loaded schema
\* returns (the same node or the same error).
C2_CompileIsPure ==
  /\ structs = yaml
  /\ (ctarget # None /\ cstatus # "Hang") =>
       LET r == build_parser(yaml, ctarget)
       IN  r.status = cstatus /\ r.node = parser

\* ---------------------------------------------------------------- C3
\* the format the claim expects of a struct: every field's single-element
\* format repeated product(dims of its type string) times
RECURSIVE ExpectedFormat(_, _, _)
ExpectedFormat(fields, children, bit) ==
  IF fields = <<>> THEN <<>>
  ELSE LET item == Head(fields)[1]
           c    == Get(children, item.k)
       IN  Rep(FlatFormat([c EXCEPT !.dim = <<>>], bit), Prod(Dims(item.v.type)))
             \o ExpectedFormat(Tail(fields), children, bit)

\* C3: the layout of a compiled struct is the concatenation, in field order,
\* of each field's single-element flat format repeated product(dims) times,
\* whatever the kind of the field's node.
C3_DimsAttachedToEveryKind ==
  (phase = "shown" /\ parser.has_children) =>
    layout.fmt = ExpectedFormat(yaml[ctarget].fields, parser.children, layout.bit)

\* ---------------------------------------------------------------- C4
\* C4: the byte_size get_format returns is the plain sum of the widths of
\* the codes of its flat format, the number of bytes parse reads.
C4_ByteSizeIsPlainSum ==
  phase = "shown" => layout.size = PackedSize(layout.fmt)

\* ---------------------------------------------------------------- C5
\* the value of a node read from the buffer by position: the node starts at
\* byte pos (from 0), an array element i at pos + i * (element width), a
\* struct field at pos + (the widths of the fields before it)
RECURSIVE RefValue(_, _, _, _, _, _)
RefValue(bp, dim, buf, pos, bit, endian) ==
  IF Len(dim) # 0 THEN
    LET stride == PackedSize(FlatFormat([bp EXCEPT !.dim = Tail(dim)], bit))
        elems  == [i \in 1..dim[1] |->
                     Item("", RefValue(bp, Tail(dim), buf, pos + (i - 1) * stride, bit, endian))]
    IN  IF bp.type = "Char" /\ Len(dim) = 1
        THEN StructData("str", <<>>, SubSeq(buf, pos + 1, pos + dim[1]), bp.fmt, bp.equates)
        ELSE StructData("list", elems, <<>>, bp.fmt, bp.equates)
  ELSE IF bp.ptr_depth > 0 \/ bp.type # None THEN
    LET code  == IF bp.ptr_depth > 0 THEN TypeFormat("Pointer", bit)
                 ELSE TypeFormat(bp.type, bit)
        bytes == SubSeq(buf, pos + 1, pos + StdSize(code))
    IN  StructData(PyType(code), <<>>,
                   IF endian = "little" THEN Reverse(bytes) ELSE bytes,
                   bp.fmt, bp.equates)
  ELSE
    LET RECURSIVE At(_, _)
        At(cs, p) ==
          IF cs = <<>> THEN <<>>
          ELSE LET c == Head(cs).v
                   w == PackedSize(FlatFormat(c, bit))
               IN  IF c.type = "Padding" THEN At(Tail(cs), p + w)
                   ELSE <<Item(Head(cs).k, RefValue(c, c.dim, buf, p, bit, endian))>>
                          \o At(Tail(cs), p + w)
    IN  StructData("dict", At(bp.children, pos), <<>>, bp.fmt, bp.equates)

\* C5: decoding a struct from a buffer that holds its packed format
\* succeeds, no padding field is a key of the decoded mapping, and every
\* field (those after a padding field too) holds the scalar found at its own
\* position of the layout.
C5_PaddingSkippedFieldsAligned ==
  (ParseInputFits /\ parser.has_children) =>
    /\ dstatus = "ok"
    /\ \A i \in 1..Len(parser.children) :
         parser.children[i].v.type = "Padding" =>
           \A j \in 1..Len(result.items) : result.items[j].k # parser.children[i].k
    /\ result = RefValue(parser, parser.dim, args.buf, args.offset, args.bit, args.endian)

\* a struct with a padding field right before a 4-byte field was decoded
C5_Witness ==
  /\ phase = "parsed" /\ dstatus = "ok" /\ parser.has_children
  /\ \E i \in 1..(Len(parser.children) - 1) :
       /\ parser.children[i].v.type = "Padding"
       /\ parser.children[i + 1].v.type = "U32"
       /\ result.items[Len(result.items)].k = parser.children[i + 1].k

\* ---------------------------------------------------------------- C6
\* C6: parse fails with the buffer-too-short error whenever
\* offset + byte_size(bit) > len(buffer), byte_size being get_format's size,
\* and then returns no value tree.
C6_TruncatedBufferRejected ==
  \A abi \in ABIs :
    (phase = "parsed" /\
     args.offset + get_format(parser, args.bit, abi).size > Len(args.buf)) =>
      dstatus = "struct.error" /\ result = NoData

\* ---------------------------------------------------------------- C7
\* a field of the struct has a record entry with both labels and flags
HasConflict(S, target) ==
  /\ target \in DOMAIN S
  /\ ~S[target].is_str
  /\ \E i \in 1..Len(S[target].fields) :
       \E j \in 1..Len(S[target].fields[i]) :
         LET e == S[target].fields[i][j].v
         IN  ~e.is_str /\ e.has_labels /\ e.has_flags

\* C7: compiling a struct with a field that carries both labels and flags
\* ends with ConflictingLabelSpec and no parser node (unless the call
\* already ended with another error or is still looping).
C7_ConflictingLabelsRejected ==
  (HasConflict(yaml, ctarget) /\ cstatus \notin {"KeyError", "ValueError", "Hang"}) =>
    cstatus = "ConflictingLabelSpec" /\ parser = NoParser

\* ---------------------------------------------------------------- C8
\* C8: to_json renders the tree by the kind of its root and of every inner
\* node alike: mapping to object, sequence to array, scalar to its label or
\* its raw value; a scalar root renders to that scalar.
C8_ToJsonByKind ==
  (phase = "rendered" /\ jstatus = "ok") => json = dumps(to_dict_inner(result)).doc

\* ---------------------------------------------------------------- C9
\* the leaves of a value tree in layout order; a text counts one leaf per
\* character
RECURSIVE Leaves(_)
Leaves(sd) ==
  LET RECURSIVE Each(_)
      Each(its) == IF its = <<>> THEN <<>> ELSE Leaves(Head(its).v) \o Each(Tail(its))
  IN  IF sd.vtype \in {"dict", "list"} THEN Each(sd.items)
      ELSE IF sd.vtype = "str"
      THEN [i \in 1..Len(sd.raw) |-> [py |-> "bytes", raw |-> <<sd.raw[i]>>]]
      ELSE <<[py |-> sd.vtype, raw |-> sd.raw]>>

\* C9: when the buffer holds the packed format, decoding ends normally, the
\* k-th leaf in layout order is the k-th unpacked scalar, and the reversed
\* list is empty at the end and was never popped while empty.
C9_StackMatchesCursor ==
  ParseInputFits =>
    /\ dstatus = "ok"
    /\ data = <<>>
    /\ Leaves(result) =
         Unpack(FlatFormat(parser, args.bit), args.buf, args.offset, args.endian)

\* ---------------------------------------------------------------- C10
\* the shape the original claim gives a char array: text only when the
\* declared array has one dimension, nested lists of single characters else
RECURSIVE DeclaredShape(_, _, _)
DeclaredShape(sd, dim, declared) ==
  IF Len(dim) = 0 THEN sd.vtype = "bytes"
  ELSE IF Len(declared) = 1 THEN sd.vtype = "str"
  ELSE /\ sd.vtype = "list"
       /\ Len(sd.items) = dim[1]
       /\ \A i \in 1..Len(sd.items) : DeclaredShape(sd.items[i].v, Tail(dim), declared)

\* the shape the code gives a char array: the innermost dimension is a text
RECURSIVE InnermostShape(_, _)
InnermostShape(sd, dim) ==
  IF Len(dim) = 1 THEN sd.vtype = "str" /\ Len(sd.raw) = dim[1]
  ELSE /\ sd.vtype = "list"
       /\ Len(sd.items) = dim[1]
       /\ \A i \in 1..Len(sd.items) : InnermostShape(sd.items[i].v, Tail(dim))

\* the char array fields of a decoded struct, nested structs included
RECURSIVE CharArrays(_, _)
CharArrays(bp, sd) ==
  LET RECURSIVE Each(_)
      Each(cs) ==
        IF cs = <<>> THEN <<>>
        ELSE (IF Head(cs).v.type = "Padding" THEN <<>>
              ELSE CharArrays(Head(cs).v, Get(sd.items, Head(cs).k))) \o Each(Tail(cs))
  IN  IF bp.type = "Char" /\ Len(bp.dim) > 0 THEN <<[bp |-> bp, sd |-> sd]>>
      ELSE IF bp.ptr_depth = 0 /\ bp.type = None /\ bp.has_children /\ bp.dim = <<>>
      THEN Each(bp.children)
      ELSE <<>>

\* C10 as stated: a char array decodes to a text exactly when it is declared
\* with one dimension; with two or more it decodes to nested sequences of
\* single characters.
C10_TextOnlyWhenOneDimensional ==
  (phase = "parsed" /\ dstatus = "ok" /\ parser.has_children) =>
    LET cas == CharArrays(parser, result)
    IN  \A i \in 1..Len(cas) : DeclaredShape(cas[i].sd, cas[i].bp.dim, cas[i].bp.dim)

\* C10 as amended: a char array decodes its innermost dimension to a text:
\* a text for one declared dimension, and for dims d1..dn, n >= 2, nested
\* sequences of depth n-1 whose innermost elements are texts of dn characters.
C10_InnermostDimensionIsText ==
  (phase = "parsed" /\ dstatus = "ok" /\ parser.has_children) =>
    LET cas == CharArrays(parser, result)
    IN  \A i \in 1..Len(cas) : InnermostShape(cas[i].sd, cas[i].bp.dim)

\* a struct with a two-dimensional char array was decoded
C10_Witness ==
  /\ phase = "parsed" /\ dstatus = "ok" /\ parser.has_children
  /\ \E i \in 1..Len(parser.children) :
       /\ parser.children[i].v.type = "Char"
       /\ Len(parser.children[i].v.dim) = 2
       /\ Get(result.items, parser.children[i].k).vtype = "list"

====
